---- MODULE Spec2Model ----
(***************************************************************************)
(* Health / lifecycle manager of mcp_server (src/src/mcp_server/health.py) *)
(* together with the process that hosts it (src/src/mcp_server/main.py).   *)
(*                                                                         *)
(* Time is counted in ticks of half a second, so that the three sleeps of  *)
(* the code (2 s, 0.5 s, 0.5 s) are whole numbers of ticks.                *)
(*                                                                         *)
(* A coroutine runs without interruption between two awaits, so every      *)
(* piece of a coroutine between two awaits is one action.  The signal      *)
(* handler is a plain function run by the interpreter in the main thread:  *)
(* it is one action, together with the exception it raises into the host.  *)
(***************************************************************************)
EXTENDS Integers, Sequences, FiniteSets, TLC

(* ---------------------------- bounds ----------------------------------- *)
MaxTime == 5
MaxSignals == 2
MaxBuilt == 2
MaxBatch == 3
MaxStarts == 2
MaxManagers == 2

(* ------------------------ program constants ---------------------------- *)
READY_DELAY == 4
CLEANUP_DELAY == 1
STARTUP_LOG_DELAY == 1
SIGTERM == 15
SIGINT == 2

DeploymentModes == {"development", "uvx", "docker", "production"}
Signals == {SIGTERM, SIGINT}

MSG_INITIATED == "Graceful shutdown initiated"
MSG_PERFORMING == "Performing cleanup..."
MSG_COMPLETE == "Shutdown complete"
MSG_STARTUP == "Application startup complete"

(* The process that owns the manager: "main" is main() of main.py, which   *)
(* lets every exception of the handler propagate; "embedded" is a caller   *)
(* that builds the server itself (the async tests do), may call start(),   *)
(* and catches what the handler raises, so that its event loop goes on.    *)
Hosts == {"main", "embedded"}

VARIABLES
    host,              \* who runs the server
    deployment_mode,   \* config.deployment_mode
    now,               \* the clock, in ticks
    pc,                \* position of the host: created, serving, finalizing, exited
    exit_code,         \* -1 while the process lives
    is_ready,          \* HealthCheckManager.is_ready
    is_shutting_down,  \* HealthCheckManager.is_shutting_down
    startup_time,      \* HealthCheckManager.startup_time
    ready_task,        \* HealthCheckManager._ready_task: [st, wake]
    cleanup,           \* the _cleanup tasks ever created, in order: [st, wake]
    logger_task,       \* the startup_logger task of run_server: [st, wake]
    log,               \* what has been printed
    exit_calls,        \* number of sys.exit(0) calls made by the handler
    sig_count,         \* number of signals delivered
    start_calls,       \* number of start() calls made
    response,          \* the last answer of a health query
    at_call,           \* the lifecycle state in which that answer was computed
    supplied,          \* the settings given to MCPServerConfig (arguments, environment)
    config,            \* what MCPServerConfig(...) gave: a configuration or an error
    storage_config,    \* the last dict returned by get_storage_config()
    fs,                \* the directories that exist, each a sequence of path parts
    server,            \* constructions of MCPServerFoundation: [built, failed]
    message,           \* the JSON-RPC message at hand
    origin,            \* how that message came about
    verdict,           \* the last validation: [validator, ok]
    args,              \* the arguments of the last builder call
    batch,             \* the messages handed to the engine, in order
    tasks,             \* one process_message_simulation task per message
    responses,         \* the await of asyncio.gather: [st, list]
    decoded,           \* the outcome of the batch decode, in order
    managers,          \* the HealthCheckManagers of the process, in order
    installed,         \* whose _handle_shutdown the SIGTERM/SIGINT handler is
    proc               \* the process of these managers: [loop, alive]

health_vars == <<host, deployment_mode, now, pc, exit_code, is_ready,
                 is_shutting_down, startup_time, ready_task, cleanup,
                 logger_task, log, exit_calls, sig_count, start_calls,
                 response, at_call>>

config_vars == <<supplied, config, storage_config, fs, server>>

rpc_vars == <<message, origin, verdict, args>>

engine_vars == <<batch, tasks, responses, decoded>>

fleet_vars == <<managers, installed, proc>>

vars == <<health_vars, config_vars, rpc_vars, engine_vars, fleet_vars>>

(* The fields of the manager that make its lifecycle state.                *)
lifecycle == <<is_ready, is_shutting_down, startup_time, ready_task>>

NoTask == [st |-> "None", wake |-> 0]
Sleeping(delay) == [st |-> "sleeping", wake |-> now + delay]
Pending == [st |-> "pending", wake |-> 0]
Finished(t) == [t EXCEPT !.st = "done"]
Cancelled(t) == [t EXCEPT !.st = "cancelled"]

NoResponse == [kind |-> "none"]
NoCall == [is_ready |-> FALSE, is_shutting_down |-> FALSE, signals |-> 0,
           grace_elapsed |-> FALSE]

(* asyncio.get_running_loop() succeeds: inside asyncio.run, also while it  *)
(* is cancelling the remaining tasks.                                      *)
LoopRunning == pc \in {"serving", "finalizing"}

(* The loop is scheduling tasks and answering tool calls.                  *)
Serving == pc = "serving"

(* -------------------------- config.py ---------------------------------- *)
is_development == deployment_mode \in {"development", "uvx"}

(* ---------------- HealthCheckManager.__init__ -------------------------- *)
HealthInit ==
    /\ host \in Hosts
    /\ deployment_mode \in DeploymentModes
    /\ now = 0
    /\ pc = "created"
    /\ exit_code = -1
    /\ is_shutting_down = FALSE
    /\ is_ready = FALSE
    /\ startup_time = now
    /\ ready_task = NoTask
    /\ cleanup = <<>>
    /\ logger_task = NoTask
    /\ log = <<>>
    /\ exit_calls = 0
    /\ sig_count = 0
    /\ start_calls = 0
    /\ response = NoResponse
    /\ at_call = NoCall

(* The lifecycle specification leaves the configuration and the message    *)
(* engine aside, and the other specifications leave the lifecycle aside.   *)
HealthIdle ==
    /\ HealthInit
    /\ host = "main"
    /\ deployment_mode = "development"

ConfigIdle ==
    /\ supplied = [deployment_mode |-> [t |-> "unset"]]
    /\ config = [status |-> "unresolved"]
    /\ storage_config = [called |-> FALSE]
    /\ fs = {}
    /\ server = [built |-> 0, failed |-> FALSE]

RpcIdle ==
    /\ message = [k \in {"jsonrpc", "method", "id", "params", "result", "error",
                         "error.code", "error.message", "error.data"}
                     |-> [t |-> "absent", v |-> ""]]
    /\ origin = <<>>
    /\ verdict = [validator |-> "none", ok |-> FALSE]
    /\ args = message

EngineIdle ==
    /\ batch = <<>>
    /\ tasks = <<>>
    /\ responses = [st |-> "none", list |-> <<>>]
    /\ decoded = <<>>

FleetIdle ==
    /\ managers = <<>>
    /\ installed = 0
    /\ proc = [loop |-> FALSE, alive |-> TRUE]

Init ==
    /\ HealthInit
    /\ ConfigIdle
    /\ RpcIdle
    /\ EngineIdle
    /\ FleetIdle

(* ------------------------------ time ----------------------------------- *)
Tick ==
    /\ pc # "exited"
    /\ now < MaxTime
    /\ now' = now + 1
    /\ UNCHANGED <<config_vars, rpc_vars, engine_vars, fleet_vars,
                   start_calls, host, deployment_mode, pc, exit_code, is_ready,
                   is_shutting_down, startup_time, ready_task, cleanup,
                   logger_task, log, exit_calls, sig_count, response, at_call>>

(* ------------------------------ main() --------------------------------- *)
(* asyncio.run(run_server()): the loop starts, run_server creates the      *)
(* startup_logger task and blocks in app.run_http_async.                   *)
run_server ==
    /\ host = "main"
    /\ pc = "created"
    /\ pc' = "serving"
    /\ logger_task' = Sleeping(STARTUP_LOG_DELAY)
    /\ UNCHANGED <<config_vars, rpc_vars, engine_vars, fleet_vars,
                   start_calls, host, deployment_mode, now, exit_code, is_ready,
                   is_shutting_down, startup_time, ready_task, cleanup, log,
                   exit_calls, sig_count, response, at_call>>

startup_logger ==
    /\ Serving
    /\ logger_task.st = "sleeping"
    /\ now >= logger_task.wake
    /\ log' = Append(log, MSG_STARTUP)
    /\ logger_task' = Finished(logger_task)
    /\ UNCHANGED <<config_vars, rpc_vars, engine_vars, fleet_vars,
                   start_calls, host, deployment_mode, now, pc, exit_code, is_ready,
                   is_shutting_down, startup_time, ready_task, cleanup,
                   exit_calls, sig_count, response, at_call>>

(* An embedding caller enters its own event loop.                          *)
run_embedded ==
    /\ host = "embedded"
    /\ pc = "created"
    /\ pc' = "serving"
    /\ UNCHANGED <<config_vars, rpc_vars, engine_vars, fleet_vars,
                   start_calls, host, deployment_mode, now, exit_code, is_ready,
                   is_shutting_down, startup_time, ready_task, cleanup,
                   logger_task, log, exit_calls, sig_count, response, at_call>>

(* ------------------- HealthCheckManager.start -------------------------- *)
(* Nothing in main.py calls start(); only an embedding caller can, and     *)
(* only from a coroutine, that is inside a running loop.                   *)
StartTask_always_creates == Sleeping(READY_DELAY)

(* Lines 43-44.                                                            *)
StartTask == IF ready_task = NoTask THEN Sleeping(READY_DELAY) ELSE ready_task

start ==
    /\ host = "embedded"
    /\ Serving
    /\ start_calls < MaxStarts
    /\ start_calls' = start_calls + 1
    /\ ready_task' = StartTask
    /\ UNCHANGED <<config_vars, rpc_vars, engine_vars, fleet_vars, host, deployment_mode, now, pc, exit_code, is_ready,
                   is_shutting_down, startup_time, cleanup, logger_task, log,
                   exit_calls, sig_count, response, at_call>>

(* ----------------- HealthCheckManager._mark_ready ---------------------- *)
_mark_ready_no_sleep ==
    /\ Serving
    /\ ready_task.st = "sleeping"
    /\ is_ready' = TRUE
    /\ ready_task' = Finished(ready_task)
    /\ UNCHANGED <<config_vars, rpc_vars, engine_vars, fleet_vars,
                   start_calls, host, deployment_mode, now, pc, exit_code,
                   is_shutting_down, startup_time, cleanup, logger_task, log,
                   exit_calls, sig_count, response, at_call>>

_mark_ready ==
    /\ Serving
    /\ ready_task.st = "sleeping"
    /\ now >= ready_task.wake
    /\ is_ready' = TRUE
    /\ ready_task' = Finished(ready_task)
    /\ UNCHANGED <<config_vars, rpc_vars, engine_vars, fleet_vars,
                   start_calls, host, deployment_mode, now, pc, exit_code,
                   is_shutting_down, startup_time, cleanup, logger_task, log,
                   exit_calls, sig_count, response, at_call>>

(* --------------- HealthCheckManager._handle_shutdown ------------------- *)
(* The test of line 64.                                                    *)
ShutdownGuard_always == TRUE

ShutdownGuard == ~is_shutting_down

(* What an exception raised by the handler does to the host.  main()       *)
(* catches KeyboardInterrupt only: SystemExit(0) leaves asyncio.run, which *)
(* first cancels the remaining tasks, and the process exits with 0; a      *)
(* RuntimeError is an uncaught exception, the interpreter exits with 1.    *)
(* An embedding caller catches both and goes on.                           *)
PcAfterRaise(exc) ==
    IF host = "embedded" THEN pc
    ELSE IF exc = "SystemExit" /\ pc = "serving" THEN "finalizing"
    ELSE "exited"

ExitCodeAfterRaise(exc) ==
    IF host = "embedded" THEN exit_code
    ELSE IF exc = "SystemExit"
         THEN (IF pc = "serving" THEN exit_code ELSE 0)
         ELSE 1

(* Lines 65-72.  asyncio.create_task raises RuntimeError when no loop is   *)
(* running, and then sys.exit(0) is not reached.                           *)
_handle_shutdown(signum) ==
    IF ShutdownGuard
    THEN /\ is_shutting_down' = TRUE
         /\ log' = Append(log, MSG_INITIATED)
         /\ IF LoopRunning
            THEN /\ cleanup' = Append(cleanup, Pending)
                 /\ exit_calls' = exit_calls + 1
                 /\ pc' = PcAfterRaise("SystemExit")
                 /\ exit_code' = ExitCodeAfterRaise("SystemExit")
            ELSE /\ UNCHANGED <<cleanup, exit_calls>>
                 /\ pc' = PcAfterRaise("RuntimeError")
                 /\ exit_code' = ExitCodeAfterRaise("RuntimeError")
    ELSE UNCHANGED <<is_shutting_down, log, cleanup, exit_calls, pc,
                     exit_code>>

(* Delivery of SIGTERM or SIGINT to the process: the interpreter runs the  *)
(* handler registered by _register_signal_handlers.                        *)
Signal ==
    /\ pc # "exited"
    /\ sig_count < MaxSignals
    /\ \E signum \in Signals : _handle_shutdown(signum)
    /\ sig_count' = sig_count + 1
    /\ UNCHANGED <<config_vars, rpc_vars, engine_vars, fleet_vars,
                   start_calls, host, deployment_mode, now, is_ready, startup_time,
                   ready_task, logger_task, response, at_call>>

(* ------------------- HealthCheckManager._cleanup ----------------------- *)
(* Lines 76-82, up to the sleep.                                           *)
_cleanup_begin(i) ==
    /\ Serving
    /\ cleanup[i].st = "pending"
    /\ log' = Append(log, MSG_PERFORMING)
    /\ is_ready' = FALSE
    /\ cleanup' = [cleanup EXCEPT ![i] = Sleeping(CLEANUP_DELAY)]
    /\ UNCHANGED <<config_vars, rpc_vars, engine_vars, fleet_vars,
                   start_calls, host, deployment_mode, now, pc, exit_code,
                   is_shutting_down, startup_time, ready_task, logger_task,
                   exit_calls, sig_count, response, at_call>>

(* Lines 82-84, after the sleep.                                           *)
_cleanup_end_resets_flag(i) ==
    /\ Serving
    /\ cleanup[i].st = "sleeping"
    /\ now >= cleanup[i].wake
    /\ log' = Append(log, MSG_COMPLETE)
    /\ cleanup' = [cleanup EXCEPT ![i] = Finished(cleanup[i])]
    /\ is_shutting_down' = FALSE
    /\ UNCHANGED <<config_vars, rpc_vars, engine_vars, fleet_vars,
                   start_calls, host, deployment_mode, now, pc, exit_code, is_ready,
                   startup_time, ready_task, logger_task,
                   exit_calls, sig_count, response, at_call>>

_cleanup_end(i) ==
    /\ Serving
    /\ cleanup[i].st = "sleeping"
    /\ now >= cleanup[i].wake
    /\ log' = Append(log, MSG_COMPLETE)
    /\ cleanup' = [cleanup EXCEPT ![i] = Finished(cleanup[i])]
    /\ UNCHANGED <<config_vars, rpc_vars, engine_vars, fleet_vars,
                   start_calls, host, deployment_mode, now, pc, exit_code, is_ready,
                   is_shutting_down, startup_time, ready_task, logger_task,
                   exit_calls, sig_count, response, at_call>>

_cleanup ==
    \E i \in DOMAIN cleanup : _cleanup_begin(i) \/ _cleanup_end(i)

(* ----------- asyncio.run leaving on SystemExit (main.py:199) ----------- *)
(* The runner cancels every task that has not finished: a task that never  *)
(* started runs none of its body, a sleeping one ends at its await.  Then  *)
(* SystemExit(0) leaves main() and the process exits.                      *)
CancelTask(t) == IF t.st \in {"pending", "sleeping"} THEN Cancelled(t) ELSE t

finalize ==
    /\ pc = "finalizing"
    /\ ready_task' = CancelTask(ready_task)
    /\ logger_task' = CancelTask(logger_task)
    /\ cleanup' = [i \in DOMAIN cleanup |-> CancelTask(cleanup[i])]
    /\ pc' = "exited"
    /\ exit_code' = 0
    /\ UNCHANGED <<config_vars, rpc_vars, engine_vars, fleet_vars,
                   start_calls, host, deployment_mode, now, is_ready, is_shutting_down,
                   startup_time, log, exit_calls, sig_count, response,
                   at_call>>

(* --------------------- the health queries ------------------------------ *)
(* Lines 132-164: both branches of both checks return True; the except     *)
(* clauses guard a bare return and cannot be entered.                      *)
_check_database == IF is_development THEN TRUE ELSE TRUE

_check_cache == IF is_development THEN TRUE ELSE TRUE

(* Line 107.                                                               *)
ServerCheck_ignores_shutdown == is_ready

ServerCheck == is_ready /\ ~is_shutting_down

(* Line 112: all(checks.values()).                                         *)
any_ready(checks) == checks.server \/ checks.database \/ checks.cache

all_ready(checks) == checks.server /\ checks.database /\ checks.cache

(* Line 93.                                                                *)
HealthStatus_always_healthy == "healthy"

HealthStatus == IF ~is_shutting_down THEN "healthy" ELSE "shutting_down"

(* Lines 92-98.                                                            *)
HealthResponse ==
    [kind |-> "health",
     status |-> HealthStatus,
     timestamp |-> now,
     uptime_seconds |-> now - startup_time,
     deployment_mode |-> deployment_mode,
     version |-> "1.0.0"]

(* Lines 106-118.                                                          *)
ReadinessChecks ==
    [server |-> ServerCheck,
     database |-> _check_database,
     cache |-> _check_cache]

ReadinessResponse ==
    [kind |-> "readiness",
     ready |-> all_ready(ReadinessChecks),
     checks |-> ReadinessChecks,
     timestamp |-> now]

(* Lines 126-130, on a POSIX platform.                                     *)
LivenessResponse_reflects_readiness ==
    [kind |-> "liveness",
     alive |-> ServerCheck,
     timestamp |-> now,
     pid |-> LoopRunning]

LivenessResponse ==
    [kind |-> "liveness",
     alive |-> TRUE,
     timestamp |-> now,
     pid |-> LoopRunning]

(* __version__ of mcp_server/__init__.py; main.py assigns a __version__    *)
(* of its own, "1.0.0", which nothing reads.                               *)
PACKAGE_VERSION == "0.1.0"

(* "from . import __version__" inside main.py: the attribute of the        *)
(* package mcp_server, that is the one __init__.py assigns.                *)
ImportedVersion == PACKAGE_VERSION

HealthStatusResource_reads_lifecycle ==
    [kind |-> "health_status",
     status |-> HealthStatus,
     version |-> ImportedVersion,
     deployment_mode |-> deployment_mode,
     timestamp |-> now]

(* The health://status resource, main.py lines 84-95.                      *)
HealthStatusResource ==
    [kind |-> "health_status",
     status |-> "healthy",
     version |-> ImportedVersion,
     deployment_mode |-> deployment_mode,
     timestamp |-> now]

(* The get_server_info tool, main.py lines 117-134; its other entries are  *)
(* values of the configuration, which the lifecycle does not change.       *)
ServerInfo ==
    [kind |-> "server_info",
     version |-> ImportedVersion,
     deployment_mode |-> deployment_mode]

(* The sleep of _mark_ready has been started and its delay is over.        *)
GraceElapsed == ready_task.st # "None" /\ now >= ready_task.wake

(* What a query could see of the lifecycle when it was answered.           *)
Snapshot ==
    [is_ready |-> is_ready,
     is_shutting_down |-> is_shutting_down,
     signals |-> sig_count,
     grace_elapsed |-> GraceElapsed]

health_check ==
    /\ Serving
    /\ response' = HealthResponse
    /\ at_call' = Snapshot
    /\ UNCHANGED <<config_vars, rpc_vars, engine_vars, fleet_vars,
                   start_calls, host, deployment_mode, now, pc, exit_code, is_ready,
                   is_shutting_down, startup_time, ready_task, cleanup,
                   logger_task, log, exit_calls, sig_count>>

readiness_check_marks_ready ==
    /\ Serving
    /\ response' = ReadinessResponse
    /\ at_call' = Snapshot
    /\ is_ready' = TRUE
    /\ UNCHANGED <<config_vars, rpc_vars, engine_vars, fleet_vars,
                   start_calls, host, deployment_mode, now, pc, exit_code,
                   is_shutting_down, startup_time, ready_task, cleanup,
                   logger_task, log, exit_calls, sig_count>>

readiness_check ==
    /\ Serving
    /\ response' = ReadinessResponse
    /\ at_call' = Snapshot
    /\ UNCHANGED <<config_vars, rpc_vars, engine_vars, fleet_vars,
                   start_calls, host, deployment_mode, now, pc, exit_code, is_ready,
                   is_shutting_down, startup_time, ready_task, cleanup,
                   logger_task, log, exit_calls, sig_count>>

liveness_check ==
    /\ Serving
    /\ response' = LivenessResponse
    /\ at_call' = Snapshot
    /\ UNCHANGED <<config_vars, rpc_vars, engine_vars, fleet_vars,
                   start_calls, host, deployment_mode, now, pc, exit_code, is_ready,
                   is_shutting_down, startup_time, ready_task, cleanup,
                   logger_task, log, exit_calls, sig_count>>

health_status ==
    /\ Serving
    /\ response' = HealthStatusResource
    /\ at_call' = Snapshot
    /\ UNCHANGED <<config_vars, rpc_vars, engine_vars, fleet_vars,
                   start_calls, host, deployment_mode, now, pc, exit_code,
                   is_ready, is_shutting_down, startup_time, ready_task,
                   cleanup, logger_task, log, exit_calls, sig_count>>

get_server_info ==
    /\ Serving
    /\ response' = ServerInfo
    /\ at_call' = Snapshot
    /\ UNCHANGED <<config_vars, rpc_vars, engine_vars, fleet_vars,
                   start_calls, host, deployment_mode, now, pc, exit_code,
                   is_ready, is_shutting_down, startup_time, ready_task,
                   cleanup, logger_task, log, exit_calls, sig_count>>

(* ------------------------- specification ------------------------------- *)
Next ==
    \/ Tick
    \/ run_server
    \/ startup_logger
    \/ run_embedded
    \/ start
    \/ _mark_ready
    \/ Signal
    \/ _cleanup
    \/ finalize
    \/ health_check
    \/ readiness_check
    \/ liveness_check
    \/ health_status
    \/ get_server_info

Spec == Init /\ [][Next]_vars

(* The interpreter and the event loop make progress: the host goes on to   *)
(* the next statement, a task whose sleep is over is resumed, time passes. *)
(* Nothing obliges a signal, a call of start() or a query to happen.       *)
FairSpec ==
    /\ Spec
    /\ WF_vars(Tick)
    /\ WF_vars(run_server)
    /\ WF_vars(run_embedded)
    /\ WF_vars(startup_logger)
    /\ WF_vars(_mark_ready)
    /\ WF_vars(_cleanup)
    /\ WF_vars(finalize)

(* ======================= config.py: MCPServerConfig ==================== *)
(* A value as Python sees it: the tag is its type.  "unset" stands for a   *)
(* field that no source (argument, environment, .env file) supplies.       *)
(* Strings whose characters matter (the database URL) are sequences of     *)
(* characters; a request timeout is counted in tenths of a second; a path  *)
(* is the sequence of its parts.                                           *)
Unset == [t |-> "unset"]
PyNone == [t |-> "none"]
PyBool(b) == [t |-> "bool", v |-> b]
PyStr(str) == [t |-> "str", v |-> str]
PyInt(n) == [t |-> "int", v |-> n]
PyUrl(cs) == [t |-> "url", v |-> cs]
PyPath(parts) == [t |-> "path", v |-> parts]

(* bool(v) of Python.                                                      *)
Truthy(v) ==
    CASE v.t = "bool" -> v.v
      [] v.t = "str" -> v.v # ""
      [] v.t = "int" -> v.v # 0
      [] OTHER -> FALSE

(* str.lower() on the mode names that are supplied here.                   *)
Lower(str) ==
    CASE str = "PRODUCTION" -> "production"
      [] str = "Development" -> "development"
      [] OTHER -> str

(* str.startswith.                                                         *)
StartsWith(cs, prefix) ==
    /\ Len(cs) >= Len(prefix)
    /\ SubSeq(cs, 1, Len(prefix)) = prefix

SQLITE == <<"s", "q", "l", "i", "t", "e">>
URL_DEFAULT == <<"s", "q", "l", "i", "t", "e", ":", "/", "/", "/", ".", "/", "d", "a", "t", "a", "/", "m", "c", "p", ".", "d", "b">>
URL_POSTGRES == <<"p", "o", "s", "t", "g", "r", "e", "s", "q", "l", ":", "/", "/", "h", "/", "d">>

StorageBackends == {"local", "s3", "azure", "gcs"}

(* The defaults of the Field(...) declarations, lines 46-128.              *)
FieldDefault ==
    [deployment_mode |-> PyStr("development"),
     debug |-> PyBool(FALSE),
     reload |-> PyBool(FALSE),
     use_file_watcher |-> PyBool(FALSE),
     database_url |-> PyUrl(URL_DEFAULT),
     port |-> PyInt(8000),
     workers |-> PyInt(1),
     redis_db |-> PyInt(0),
     request_timeout |-> PyInt(300),
     storage_backend |-> PyStr("local"),
     storage_path |-> PyPath(<<"data", "storage">>),
     storage_bucket |-> PyNone,
     storage_region |-> PyNone]

Fields == DOMAIN FieldDefault

(* The value that reaches the validators of a field: BaseSettings          *)
(* validates defaults too, so an unset field is validated as its default.  *)
Raw(s, field) == IF s[field].t = "unset" THEN FieldDefault[field] ELSE s[field]

(* Lines 136-141.                                                          *)
validate_deployment_mode(v) == IF v.t = "str" THEN PyStr(Lower(v.v)) ELSE v

(* The value is a member of the DeploymentMode enumeration.                *)
ModeValid(v) == v.t = "str" /\ v.v \in DeploymentModes

(* info.data.get("deployment_mode", DeploymentMode.DEVELOPMENT): the mode  *)
(* is in info.data only when its own validation succeeded.                 *)
InfoDataMode(s) ==
    LET v == validate_deployment_mode(Raw(s, "deployment_mode"))
    IN  IF ModeValid(v) THEN v.v ELSE "development"

(* Lines 143-156.                                                          *)
validate_database_url_any_mode(v, mode) ==
    IF ~StartsWith(v, SQLITE) THEN URL_DEFAULT ELSE v

validate_database_url(v, mode) ==
    IF mode \in {"development", "uvx"} /\ ~StartsWith(v, SQLITE)
    THEN URL_DEFAULT
    ELSE v

(* Lines 158-167.                                                          *)
validate_debug_if_falsy(v, mode) ==
    IF ~Truthy(v)
    THEN mode \in {"development", "uvx"}
    ELSE Truthy(v)

validate_debug(v, mode) ==
    IF v.t = "none" \/ (v.t = "str" /\ v.v = "")
    THEN mode \in {"development", "uvx"}
    ELSE Truthy(v)

(* Lines 169-178.                                                          *)
validate_reload(v, mode) ==
    IF v.t = "none" \/ (v.t = "str" /\ v.v = "")
    THEN mode \in {"development", "uvx"}
    ELSE Truthy(v)

(* Lines 180-189.                                                          *)
validate_file_watcher(v, mode) ==
    IF v.t = "none" \/ (v.t = "str" /\ v.v = "")
    THEN mode \in {"development", "uvx"}
    ELSE Truthy(v)

(* The constraints of lines 55, 57, 74-76 and 96.                          *)
PortOk_no_upper_bound(n) == n >= 1

PortOk(n) == n >= 1 /\ n <= 65535

WorkersOk(n) == n >= 1

RedisDbOk(n) == n >= 0 /\ n <= 15

RequestTimeoutOk(tenths) == tenths >= 10

(* The fields whose validation fails.                                      *)
FieldErrors(s) ==
    {f \in {"deployment_mode", "port", "workers", "redis_db",
            "request_timeout"} :
        CASE f = "deployment_mode" ->
                ~ModeValid(validate_deployment_mode(Raw(s, f)))
          [] f = "port" -> ~PortOk(Raw(s, f).v)
          [] f = "workers" -> ~WorkersOk(Raw(s, f).v)
          [] f = "redis_db" -> ~RedisDbOk(Raw(s, f).v)
          [] f = "request_timeout" -> ~RequestTimeoutOk(Raw(s, f).v)}

(* MCPServerConfig built from s: every field is validated; one failure or  *)
(* more raises a ValidationError naming the fields and no object is made.  *)
Resolve(s) ==
    IF FieldErrors(s) # {}
    THEN [status |-> "error", errors |-> FieldErrors(s)]
    ELSE [status |-> "ok",
          deployment_mode |-> InfoDataMode(s),
          debug |-> validate_debug(Raw(s, "debug"), InfoDataMode(s)),
          reload |-> validate_reload(Raw(s, "reload"), InfoDataMode(s)),
          use_file_watcher |->
              validate_file_watcher(Raw(s, "use_file_watcher"),
                                    InfoDataMode(s)),
          database_url |->
              validate_database_url(Raw(s, "database_url").v,
                                    InfoDataMode(s)),
          port |-> Raw(s, "port").v,
          workers |-> Raw(s, "workers").v,
          redis_db |-> Raw(s, "redis_db").v,
          request_timeout |-> Raw(s, "request_timeout").v,
          storage_backend |-> Raw(s, "storage_backend").v,
          storage_path |-> Raw(s, "storage_path").v,
          storage_bucket |-> Raw(s, "storage_bucket"),
          storage_region |-> Raw(s, "storage_region")]

(* Lines 191-194, for a resolved configuration.                            *)
ConfigIsDevelopment(cfg) == cfg.deployment_mode \in {"development", "uvx"}

(* Lines 204-218.                                                          *)
StorageKeys_ignoring_backend(cfg) ==
    {"backend", "path"}
        \cup (IF cfg.storage_bucket.t # "none" THEN {"bucket"} ELSE {})
        \cup (IF cfg.storage_region.t # "none" THEN {"region"} ELSE {})

StorageKeys(cfg) ==
    {"backend", "path"}
        \cup (IF cfg.storage_backend # "local" /\ cfg.storage_bucket.t # "none"
              THEN {"bucket"} ELSE {})
        \cup (IF cfg.storage_backend # "local" /\ cfg.storage_region.t # "none"
              THEN {"region"} ELSE {})

GetStorageConfig(cfg) ==
    [k \in StorageKeys(cfg) |->
        CASE k = "backend" -> PyStr(cfg.storage_backend)
          [] k = "path" -> PyPath(cfg.storage_path)
          [] k = "bucket" -> cfg.storage_bucket
          [] k = "region" -> cfg.storage_region]

(* ------------------------- the inputs ---------------------------------- *)
AllUnset == [f \in Fields |-> Unset]

ModeInputs ==
    {Unset, PyStr("development"), PyStr("uvx"), PyStr("docker"),
     PyStr("production"), PyStr("PRODUCTION"), PyStr("Development"),
     PyStr("staging")}

(* Unset, None and True/False come from arguments, the strings from the    *)
(* environment, which supplies every value as text.                        *)
FlagInputs ==
    {Unset, PyNone, PyStr(""), PyBool(TRUE), PyBool(FALSE), PyStr("false"),
     PyStr("true")}

(* The default, sqlite:///t.db, sqlite, sqlit, SQLite:///t.db,             *)
(* mysqlite://h/d, postgresql://h/d and the empty string.                  *)
UrlInputs ==
    {Unset, PyUrl(URL_DEFAULT), PyUrl(URL_POSTGRES),
     PyUrl(<<"s", "q", "l", "i", "t", "e", ":", "/", "/", "/", "t", ".", "d", "b">>),
     PyUrl(<<"s", "q", "l", "i", "t", "e">>),
     PyUrl(<<"s", "q", "l", "i", "t">>),
     PyUrl(<<"S", "Q", "L", "i", "t", "e", ":", "/", "/", "/", "t", ".", "d", "b">>),
     PyUrl(<<"m", "y", "s", "q", "l", "i", "t", "e", ":", "/", "/", "h", "/", "d">>),
     PyUrl(<<>>)}

PathInputs ==
    {Unset, PyPath(<<"data", "storage">>), PyPath(<<"tmp", "storage">>),
     PyPath(<<"store">>)}


(* The directories that exist before the server is built.                  *)
FsInputs ==
    {{}, {<<"data">>}, {<<"data">>, <<"data", "storage">>},
     {<<"tmp">>, <<"tmp", "storage">>}}

FlagCases ==
    {[AllUnset EXCEPT !.deployment_mode = m, !.debug = d, !.reload = r,
                      !.use_file_watcher = w] :
        m \in ModeInputs \ {PyStr("staging"), PyStr("Development")},
        d \in FlagInputs, r \in FlagInputs, w \in FlagInputs}

UrlCases ==
    {[AllUnset EXCEPT !.deployment_mode = m, !.database_url = u] :
        m \in ModeInputs, u \in UrlInputs}

LimitCases ==
    {[AllUnset EXCEPT !.deployment_mode = m, !.port = p, !.workers = w,
                      !.redis_db = r, !.request_timeout = q] :
        m \in {Unset, PyStr("production"), PyStr("staging")},
        p \in {Unset, PyInt(0), PyInt(1), PyInt(9000), PyInt(65535),
                PyInt(65536)},
        w \in {Unset, PyInt(0), PyInt(1), PyInt(4)},
        r \in {Unset, PyInt(-1), PyInt(0), PyInt(15), PyInt(16)},
        q \in {Unset, PyInt(5), PyInt(9), PyInt(10), PyInt(300)}}

StorageCases ==
    {[AllUnset EXCEPT !.deployment_mode = m, !.storage_backend = b,
                      !.storage_path = p, !.storage_bucket = k,
                      !.storage_region = r] :
        m \in {PyStr(d) : d \in DeploymentModes},
        b \in {Unset} \cup {PyStr(x) : x \in StorageBackends},
        p \in PathInputs,
        k \in {Unset, PyNone, PyStr("my-bucket")},
        r \in {Unset, PyStr("us-east-1")}}

ConfigInit ==
    /\ HealthIdle
    /\ RpcIdle
    /\ EngineIdle
    /\ FleetIdle
    /\ config = [status |-> "unresolved"]
    /\ storage_config = [called |-> FALSE]
    /\ server = [built |-> 0, failed |-> FALSE]
    /\ \/ supplied \in FlagCases \cup UrlCases \cup LimitCases /\ fs = {}
       \/ supplied \in StorageCases /\ fs \in FsInputs

(* ------------------------ get_config ----------------------------------- *)
(* Lines 221-223: MCPServerConfig() over what is supplied.                 *)
get_config ==
    /\ config.status = "unresolved"
    /\ config' = Resolve(supplied)
    /\ UNCHANGED <<health_vars, rpc_vars, engine_vars, fleet_vars, supplied, storage_config, fs, server>>

get_storage_config ==
    /\ config.status = "ok"
    /\ storage_config' = GetStorageConfig(config)
    /\ UNCHANGED <<health_vars, rpc_vars, engine_vars, fleet_vars, supplied, config, fs, server>>

(* ================== main.py: MCPServerFoundation ======================= *)
(* Path.mkdir(parents=True, exist_ok=True) on a tree in which the paths in *)
(* question are directories or absent.                                     *)
Prefixes(path) == {SubSeq(path, 1, k) : k \in 1..Len(path)}

mkdir_exist_not_ok(dirs, path) ==
    IF path \in dirs
    THEN [dirs |-> dirs, failed |-> TRUE]
    ELSE [dirs |-> dirs \cup Prefixes(path), failed |-> FALSE]

mkdir(dirs, path) == [dirs |-> dirs \cup Prefixes(path), failed |-> FALSE]

(* Lines 55-68.                                                            *)
_setup_development_mode(dirs, cfg) ==
    LET storage == mkdir(dirs, cfg.storage_path)
    IN  IF storage.failed THEN storage ELSE mkdir(storage.dirs, <<"data">>)

(* Lines 70-74.                                                            *)
_setup_production_mode(dirs, cfg) == [dirs |-> dirs, failed |-> FALSE]

(* Lines 43-49.                                                            *)
_setup_server(dirs, cfg) ==
    IF ConfigIsDevelopment(cfg)
    THEN _setup_development_mode(dirs, cfg)
    ELSE _setup_production_mode(dirs, cfg)

(* MCPServerFoundation(config), lines 33-41, any number of times.          *)
construct ==
    /\ config.status = "ok"
    /\ ~server.failed
    /\ server.built < MaxBuilt
    /\ fs' = _setup_server(fs, config).dirs
    /\ server' = IF _setup_server(fs, config).failed
                 THEN [server EXCEPT !.failed = TRUE]
                 ELSE [server EXCEPT !.built = @ + 1]
    /\ UNCHANGED <<health_vars, rpc_vars, engine_vars, fleet_vars, supplied, config, storage_config>>

ConfigNext ==
    \/ get_config
    \/ get_storage_config
    \/ construct

ConfigSpec == ConfigInit /\ [][ConfigNext]_vars

(* ================= tests/utils.py: JSON-RPC 2.0 messages =============== *)
(* A message is a Python dict over the keys below; a key that is not in    *)
(* the dict holds Absent.  A JSON value is its type and its text.          *)
(* The entries of the error dict are the keys "error.code", "error.message" *)
(* and "error.data": they are there only when error is a dict.             *)
ErrorKeys == {"error.code", "error.message", "error.data"}
Keys == {"jsonrpc", "method", "id", "params", "result", "error"} \cup ErrorKeys
Absent == [t |-> "absent", v |-> ""]
JNull == [t |-> "null", v |-> "null"]
JStr(str) == [t |-> "str", v |-> str]
JInt(str) == [t |-> "int", v |-> str]
JDict(str) == [t |-> "dict", v |-> str]
JList(str) == [t |-> "list", v |-> str]

EmptyDict == [k \in Keys |-> Absent]

(* key in message.                                                         *)
In(key, m) == m[key].t # "absent"

(* isinstance(message["params"], (dict, list)), when params is there.      *)
ParamsOk(m) == In("params", m) => m.params.t \in {"dict", "list"}

ValidRequest_any_version(m) ==
    /\ In("jsonrpc", m)
    /\ In("method", m)
    /\ m.method.t = "str"
    /\ In("id", m)
    /\ ParamsOk(m)

(* The assertions of lines 225-239, in their order.                        *)
ValidRequest(m) ==
    /\ In("jsonrpc", m)
    /\ m.jsonrpc = JStr("2.0")
    /\ In("method", m)
    /\ m.method.t = "str"
    /\ In("id", m)
    /\ ParamsOk(m)

ValidNotification_allows_id(m) ==
    /\ In("jsonrpc", m)
    /\ m.jsonrpc = JStr("2.0")
    /\ In("method", m)
    /\ m.method.t = "str"
    /\ ParamsOk(m)

(* The assertions of lines 272-286, in their order.                        *)
ValidNotification(m) ==
    /\ In("jsonrpc", m)
    /\ m.jsonrpc = JStr("2.0")
    /\ In("method", m)
    /\ m.method.t = "str"
    /\ ~In("id", m)
    /\ ParamsOk(m)

ExactlyOne_allows_both(has_result, has_error) == has_result \/ has_error

(* Lines 250-256: one of result and error, and not both.                   *)
ExactlyOne(has_result, has_error) ==
    /\ has_result \/ has_error
    /\ ~(has_result /\ has_error)

(* Lines 258-268: the checks on the error object.                          *)
ErrorOk(m) ==
    /\ m.error.t = "dict"
    /\ In("error.code", m)
    /\ In("error.message", m)
    /\ m["error.code"].t = "int"
    /\ m["error.message"].t = "str"

(* The assertions of lines 243-268, in their order.                        *)
ValidResponse(m) ==
    /\ In("jsonrpc", m)
    /\ m.jsonrpc = JStr("2.0")
    /\ In("id", m)
    /\ ExactlyOne(In("result", m), In("error", m))
    /\ In("error", m) => ErrorOk(m)

(* The values a caller passes and a peer sends.                            *)
MethodInputs == {JStr("test"), JStr("")}
ParamsInputs == {JNull, JDict("{}"), JList("[]")}
IdInputs == {JNull, JInt("1"), JStr("test-123")}
(* str(uuid4()): some fresh identifier.                                    *)
uuid4 == {JStr("uuid-a"), JStr("uuid-b")}

WireId == {Absent, JInt("1"), JStr("test-123"), JNull}


CreateRequest_keeps_null_params(method, params, request_id) ==
    [EmptyDict EXCEPT !.jsonrpc = JStr("2.0"),
                      !.method = method,
                      !.id = request_id,
                      !.params = params]

(* Lines 11-39.                                                            *)
CreateRequest(method, params, request_id) ==
    [EmptyDict EXCEPT !.jsonrpc = JStr("2.0"),
                      !.method = method,
                      !.id = request_id,
                      !.params = IF params.t # "null" THEN params ELSE Absent]

(* Lines 41-59.                                                            *)
CreateResponse(result, request_id) ==
    [EmptyDict EXCEPT !.jsonrpc = JStr("2.0"),
                      !.result = result,
                      !.id = request_id]

(* Lines 61-91.                                                            *)
CreateErrorResponse(error_code, error_message, request_id, error_data) ==
    [EmptyDict EXCEPT !.jsonrpc = JStr("2.0"),
                      !.error = JDict("error"),
                      !["error.code"] = error_code,
                      !["error.message"] = error_message,
                      !["error.data"] = IF error_data.t # "null"
                                        THEN error_data ELSE Absent,
                      !.id = request_id]

(* Lines 93-115.                                                           *)
CreateNotification(method, params) ==
    [EmptyDict EXCEPT !.jsonrpc = JStr("2.0"),
                      !.method = method,
                      !.params = IF params.t # "null" THEN params ELSE Absent]

NoVerdict == [validator |-> "none", ok |-> FALSE]

(* A message arrives as the peer wrote it.                                 *)
receive ==
    /\ \E j \in {Absent, JStr("2.0"), JStr("1.0"), JInt("2")},
          m \in {Absent, JStr("test"), JStr(""), JInt("123"), JNull},
          i \in WireId,
          p \in {Absent, JDict("{}"), JList("[]"), JStr("invalid"), JNull} :
          message' = [EmptyDict EXCEPT !.jsonrpc = j, !.method = m,
                                       !.id = i, !.params = p]
    /\ origin' = <<"receive">>
    /\ verdict' = NoVerdict
    /\ args' = EmptyDict
    /\ UNCHANGED <<health_vars, config_vars, engine_vars, fleet_vars>>

(* A response arrives as the peer wrote it.                                *)
receive_response ==
    /\ \E j \in {Absent, JStr("2.0"), JStr("1.0")}, i \in WireId,
          r \in {Absent, JNull, JStr("ok")},
          e \in {Absent, JDict("error"), JStr("err"), JNull} :
          \E c \in {Absent, JInt("-1"), JStr("-1")},
             em \in {Absent, JStr("err"), JInt("1")} :
             /\ e.t # "dict" => c = Absent /\ em = Absent
             /\ message' = [EmptyDict EXCEPT !.jsonrpc = j, !.id = i,
                                             !.result = r, !.error = e,
                                             !["error.code"] = c,
                                             !["error.message"] = em]
    /\ origin' = <<"receive_response">>
    /\ verdict' = NoVerdict
    /\ args' = EmptyDict
    /\ UNCHANGED <<health_vars, config_vars, engine_vars, fleet_vars>>

create_request ==
    /\ \E m \in MethodInputs, p \in ParamsInputs, i \in IdInputs :
          \E generated \in uuid4 :
             /\ message' = CreateRequest(m, p, IF i.t = "null" THEN generated
                                                               ELSE i)
             /\ args' = [EmptyDict EXCEPT !.method = m, !.params = p, !.id = i]
    /\ origin' = <<"create_request">>
    /\ verdict' = NoVerdict
    /\ UNCHANGED <<health_vars, config_vars, engine_vars, fleet_vars>>

create_response ==
    /\ \E r \in {JNull, JStr("ok"), JDict("{tools}")}, i \in IdInputs :
          /\ message' = CreateResponse(r, i)
          /\ args' = [EmptyDict EXCEPT !.result = r, !.id = i]
    /\ origin' = <<"create_response">>
    /\ verdict' = NoVerdict
    /\ UNCHANGED <<health_vars, config_vars, engine_vars, fleet_vars>>

create_error_response ==
    /\ \E c \in {JInt("-32601"), JInt("0"), JInt("1")},
          em \in {JStr("Method not found"), JStr("")},
          i \in IdInputs,
          d \in {JNull, JDict("{method}"), JStr("detail")} :
          /\ message' = CreateErrorResponse(c, em, i, d)
          /\ args' = [EmptyDict EXCEPT !["error.code"] = c,
                                       !["error.message"] = em,
                                       !["error.data"] = d, !.id = i]
    /\ origin' = <<"create_error_response">>
    /\ verdict' = NoVerdict
    /\ UNCHANGED <<health_vars, config_vars, engine_vars, fleet_vars>>

create_notification ==
    /\ \E m \in MethodInputs, p \in ParamsInputs :
          /\ message' = CreateNotification(m, p)
          /\ args' = [EmptyDict EXCEPT !.method = m, !.params = p]
    /\ origin' = <<"create_notification">>
    /\ verdict' = NoVerdict
    /\ UNCHANGED <<health_vars, config_vars, engine_vars, fleet_vars>>

(* message["id"] = v by the holder of the dict, before it is validated.    *)
set_id ==
    /\ origin # <<>>
    /\ ~In("id", message)
    /\ \E v \in IdInputs : message' = [message EXCEPT !.id = v]
    /\ origin' = Append(origin, "set_id")
    /\ verdict' = NoVerdict
    /\ UNCHANGED <<health_vars, config_vars, engine_vars, fleet_vars, args>>

assert_valid_jsonrpc_request ==
    /\ origin # <<>>
    /\ verdict' = [validator |-> "request", ok |-> ValidRequest(message)]
    /\ UNCHANGED <<health_vars, config_vars, engine_vars, fleet_vars,
                   message, origin, args>>

assert_valid_jsonrpc_response ==
    /\ origin # <<>>
    /\ verdict' = [validator |-> "response", ok |-> ValidResponse(message)]
    /\ UNCHANGED <<health_vars, config_vars, engine_vars, fleet_vars,
                   message, origin, args>>

assert_valid_jsonrpc_notification ==
    /\ origin # <<>>
    /\ verdict' = [validator |-> "notification",
                   ok |-> ValidNotification(message)]
    /\ UNCHANGED <<health_vars, config_vars, engine_vars, fleet_vars,
                   message, origin, args>>

RpcInit ==
    /\ HealthIdle
    /\ ConfigIdle
    /\ RpcIdle
    /\ EngineIdle
    /\ FleetIdle

RpcNext ==
    \/ receive
    \/ receive_response
    \/ create_request
    \/ create_response
    \/ create_error_response
    \/ create_notification
    \/ set_id
    \/ assert_valid_jsonrpc_request
    \/ assert_valid_jsonrpc_response
    \/ assert_valid_jsonrpc_notification

RpcSpec == RpcInit /\ [][RpcNext]_vars

(* ============ tests: message processing and batch handling ============= *)
(* create_batch_request, lines 117-127: the list itself.                   *)
CreateBatchRequest(requests) == requests

RegisteredMethods == {"tools/list", "resources/list"}

ProcessMessage_error_without_id(m) ==
    CASE m.method = JStr("tools/list") ->
            CreateResponse(JDict("{tools}"), m.id)
      [] m.method = JStr("resources/list") ->
            CreateResponse(JDict("{resources}"), m.id)
      [] OTHER ->
            CreateErrorResponse(JInt("-32601"), JStr("Method not found"),
                                JNull, JNull)

(* process_message_simulation after its sleep, test_integration.py         *)
(* lines 771-784: what it returns for a message that has an id.            *)
ProcessMessage(m) ==
    CASE m.method = JStr("tools/list") ->
            CreateResponse(JDict("{tools}"), m.id)
      [] m.method = JStr("resources/list") ->
            CreateResponse(JDict("{resources}"), m.id)
      [] OTHER ->
            CreateErrorResponse(JInt("-32601"), JStr("Method not found"),
                                m.id, JNull)

(* The messages a batch is made of: three requests, a notification, an     *)
(* object without method and a request of version 1.0.                     *)
RequestPool ==
    {CreateRequest(JStr("tools/list"), JNull, JInt("1")),
     CreateRequest(JStr("resources/list"), JNull, JStr("batch-2")),
     CreateRequest(JStr("unknown_method"), JNull, JStr("batch-3"))}
NotificationPool == {CreateNotification(JStr("ping"), JNull)}
MalformedPool ==
    {[EmptyDict EXCEPT !.jsonrpc = JStr("2.0"), !.id = JInt("1")],
     [EmptyDict EXCEPT !.jsonrpc = JStr("1.0"), !.method = JStr("test"),
                       !.id = JInt("1")]}
MessagePool == RequestPool \cup NotificationPool \cup MalformedPool

BatchInputs ==
    UNION {[1..n -> MessagePool] : n \in 0..MaxBatch}

NewTask == [st |-> "pending", result |-> EmptyDict]

(* await asyncio.gather(...) begins: one task per message, none started.   *)
gather ==
    /\ responses.st = "none"
    /\ tasks' = [i \in 1..Len(batch) |-> NewTask]
    /\ responses' = [st |-> "waiting", list |-> <<>>]
    /\ UNCHANGED <<health_vars, config_vars, rpc_vars, fleet_vars,
                   batch, decoded>>

(* A task runs process_message_simulation up to its sleep.                 *)
task_start(i) ==
    /\ tasks[i].st = "pending"
    /\ tasks' = [tasks EXCEPT ![i].st = "sleeping"]
    /\ UNCHANGED <<health_vars, config_vars, rpc_vars, fleet_vars,
                   batch, responses, decoded>>

(* The sleep is over: the task returns its response, or message["id"]      *)
(* raises KeyError for a message without id.                               *)
process_message_simulation(i) ==
    /\ tasks[i].st = "sleeping"
    /\ tasks' = IF In("id", batch[i])
                THEN [tasks EXCEPT ![i] = [st |-> "done",
                                           result |-> ProcessMessage(batch[i])]]
                ELSE [tasks EXCEPT ![i].st = "raised"]
    /\ UNCHANGED <<health_vars, config_vars, rpc_vars, fleet_vars,
                   batch, responses, decoded>>

(* gather gives the results in the order of its arguments once every task  *)
(* is done, and raises as soon as one task has raised.                     *)
gather_return ==
    /\ responses.st = "waiting"
    /\ \/ /\ \E i \in 1..Len(tasks) : tasks[i].st = "raised"
          /\ responses' = [st |-> "raised", list |-> <<>>]
       \/ /\ \A i \in 1..Len(tasks) : tasks[i].st = "done"
          /\ responses' = [st |-> "returned",
                           list |-> [i \in 1..Len(tasks) |-> tasks[i].result]]
    /\ UNCHANGED <<health_vars, config_vars, rpc_vars, fleet_vars,
                   batch, tasks, decoded>>

(* Batch decode: the structural shape of one element.                      *)
Shape(m) ==
    CASE In("method", m) /\ In("id", m) -> "request"
      [] In("method", m) /\ ~In("id", m) -> "notification"
      [] In("result", m) \/ In("error", m) -> "response"
      [] OTHER -> "invalid"

(* One element: its shape when the validator of that shape accepts it,     *)
(* and otherwise a validation failure of this element alone.               *)
Classify(m) ==
    CASE Shape(m) = "request" /\ ValidRequest(m) -> "request"
      [] Shape(m) = "notification" /\ ValidNotification(m) -> "notification"
      [] Shape(m) = "response" /\ ValidResponse(m) -> "response"
      [] OTHER -> "invalid"

decode ==
    /\ decoded = <<>>
    /\ batch # <<>>
    /\ decoded' = [i \in 1..Len(batch) |-> Classify(batch[i])]
    /\ UNCHANGED <<health_vars, config_vars, rpc_vars, fleet_vars,
                   batch, tasks, responses>>

EngineInit ==
    /\ HealthIdle
    /\ ConfigIdle
    /\ RpcIdle
    /\ FleetIdle
    /\ batch \in {CreateBatchRequest(b) : b \in BatchInputs}
    /\ tasks = <<>>
    /\ responses = [st |-> "none", list |-> <<>>]
    /\ decoded = <<>>

EngineNext ==
    \/ gather
    \/ \E i \in 1..Len(tasks) : task_start(i)
    \/ \E i \in 1..Len(tasks) : process_message_simulation(i)
    \/ gather_return
    \/ decode

EngineSpec == EngineInit /\ [][EngineNext]_vars

(* ============ health.py: several managers in one process =============== *)
(* Every MCPServerFoundation builds its own HealthCheckManager through     *)
(* register_health_endpoints.  A manager is its two flags and the state    *)
(* of its _mark_ready task and of its _cleanup task; the sleeps of the     *)
(* two tasks end at some later step.                                       *)
NewManager ==
    [is_shutting_down |-> FALSE,
     is_ready |-> FALSE,
     ready_task |-> "None",
     cleanup_task |-> "None"]

Register_keeps_first(current, new) == IF current = 0 THEN new ELSE current

(* signal.signal(signum, self._handle_shutdown), lines 54-55: the handler  *)
(* of the process is replaced by the bound method of the new manager.      *)
Register(current, new) == new

(* register_health_endpoints, line 179, and __init__, lines 22-39.         *)
fleet_construct ==
    /\ proc.alive
    /\ Len(managers) < MaxManagers
    /\ managers' = Append(managers, NewManager)
    /\ installed' = Register(installed, Len(managers) + 1)
    /\ UNCHANGED <<health_vars, config_vars, rpc_vars, engine_vars, proc>>

(* The caller enters its event loop.                                       *)
fleet_run ==
    /\ proc.alive
    /\ ~proc.loop
    /\ proc' = [proc EXCEPT !.loop = TRUE]
    /\ UNCHANGED <<health_vars, config_vars, rpc_vars, engine_vars,
                   managers, installed>>

(* start() of manager i, lines 41-44.                                      *)
fleet_start(i) ==
    /\ proc.alive
    /\ proc.loop
    /\ managers' = [managers EXCEPT ![i].ready_task =
                       IF @ = "None" THEN "sleeping" ELSE @]
    /\ UNCHANGED <<health_vars, config_vars, rpc_vars, engine_vars,
                   installed, proc>>

(* _mark_ready of manager i after its sleep, line 50.                      *)
fleet_mark_ready(i) ==
    /\ proc.alive
    /\ proc.loop
    /\ managers[i].ready_task = "sleeping"
    /\ managers' = [managers EXCEPT ![i].ready_task = "done",
                                    ![i].is_ready = TRUE]
    /\ UNCHANGED <<health_vars, config_vars, rpc_vars, engine_vars,
                   installed, proc>>

(* _handle_shutdown of manager i, lines 64-72, without what it raises.     *)
HandleShutdown(m) ==
    IF ~m.is_shutting_down
    THEN [m EXCEPT !.is_shutting_down = TRUE,
                   !.cleanup_task = IF proc.loop THEN "pending" ELSE @]
    ELSE m

(* SIGTERM or SIGINT: the interpreter calls the installed handler.  What   *)
(* it raises (SystemExit, or RuntimeError without a loop) ends the         *)
(* process unless the caller intercepts it.                                *)
fleet_signal ==
    /\ proc.alive
    /\ installed # 0
    /\ managers' = [managers EXCEPT ![installed] = HandleShutdown(@)]
    /\ \/ managers[installed].is_shutting_down /\ proc' = proc
       \/ ~managers[installed].is_shutting_down
             /\ \E survives \in BOOLEAN : proc' = [proc EXCEPT !.alive = survives]
    /\ UNCHANGED <<health_vars, config_vars, rpc_vars, engine_vars, installed>>

(* _cleanup of manager i, lines 76-84: up to its sleep, then after it.     *)
fleet_cleanup(i) ==
    /\ proc.alive
    /\ proc.loop
    /\ \/ /\ managers[i].cleanup_task = "pending"
          /\ managers' = [managers EXCEPT ![i].cleanup_task = "sleeping",
                                          ![i].is_ready = FALSE]
       \/ /\ managers[i].cleanup_task = "sleeping"
          /\ managers' = [managers EXCEPT ![i].cleanup_task = "done"]
    /\ UNCHANGED <<health_vars, config_vars, rpc_vars, engine_vars,
                   installed, proc>>

FleetInit ==
    /\ HealthIdle
    /\ ConfigIdle
    /\ RpcIdle
    /\ EngineIdle
    /\ FleetIdle

FleetNext ==
    \/ fleet_construct
    \/ fleet_run
    \/ \E i \in 1..Len(managers) : fleet_start(i)
    \/ \E i \in 1..Len(managers) : fleet_mark_ready(i)
    \/ fleet_signal
    \/ \E i \in 1..Len(managers) : fleet_cleanup(i)

FleetSpec == FleetInit /\ [][FleetNext]_vars

(* ============================ properties =============================== *)

(* C1: shutdown is idempotent.  Once is_shutting_down is set, a further    *)
(* call of the shutdown handler changes no lifecycle field, creates no     *)
(* _cleanup task, calls sys.exit no second time and prints nothing; over   *)
(* any sequence of signals at most one _cleanup task is ever created.      *)
C1_ShutdownIdempotent ==
    /\ [](Len(cleanup) <= 1 /\ exit_calls <= 1)
    /\ [][(is_shutting_down /\ sig_count' # sig_count)
            => UNCHANGED <<is_ready, is_shutting_down, startup_time,
                           ready_task, cleanup, exit_calls, pc, exit_code,
                           log>>]_vars

(* A second signal has been handled and there is still one _cleanup task   *)
(* and one call of sys.exit.                                               *)
C1_Witness ==
    /\ sig_count >= 2
    /\ Len(cleanup) = 1
    /\ exit_calls = 1

(* C2: after a termination signal the cleanup runs to its end before exit  *)
(* is initiated: when the handler calls sys.exit a _cleanup task has       *)
(* printed "Shutdown complete", and in a process that the handler's        *)
(* sys.exit has stopped every "Graceful shutdown initiated" is followed by *)
(* "Shutdown complete".                                                    *)
InitiatedThenComplete ==
    \A i \in DOMAIN log :
        log[i] = MSG_INITIATED
            => \E j \in DOMAIN log : j > i /\ log[j] = MSG_COMPLETE

C2_CleanupBeforeExit ==
    /\ exit_calls > 0 => \E i \in DOMAIN cleanup : cleanup[i].st = "done"
    /\ (pc = "exited" /\ exit_calls > 0) => InitiatedThenComplete

(* C3: a server run by main() that receives no termination signal becomes  *)
(* ready on its own: eventually is_ready holds and readiness_check()       *)
(* answers ready = true.                                                   *)
C3_EventuallyReady ==
    <>(host # "main" \/ sig_count > 0
         \/ (is_ready /\ ReadinessResponse.ready))

(* C4: a process run by main() that a SIGTERM or SIGINT has stopped, at    *)
(* whatever moment after construction the signal came, has exit code 0.    *)
C4_SignalExitsWithZero ==
    (host = "main" /\ sig_count > 0 /\ pc = "exited") => exit_code = 0

(* C5: the lifecycle is linear.  With Starting = not ready and not         *)
(* shutting down, Ready = ready and not shutting down, ShuttingDown =      *)
(* shutting down, Stopped = process exited, no step goes back along        *)
(* Starting -> Ready -> ShuttingDown -> Stopped, and is_shutting_down      *)
(* never returns from true to false.                                       *)
Rank ==
    IF pc = "exited" THEN 3
    ELSE IF is_shutting_down THEN 2
    ELSE IF is_ready THEN 1
    ELSE 0

C5_LinearLifecycle ==
    [][Rank' >= Rank /\ (is_shutting_down => is_shutting_down')]_vars

(* The server was ready, a signal came and the cleanup ran to its end.     *)
C5_Witness ==
    /\ ready_task.st = "done"
    /\ is_shutting_down
    /\ \E i \in DOMAIN cleanup : cleanup[i].st = "done"

(* C6: from the first handled termination signal on, no readiness_check()  *)
(* answers checks.server = true or ready = true, whether _cleanup has run  *)
(* or not and whether _mark_ready completes afterwards or not.             *)
C6_NotReadyAfterSignal ==
    /\ sig_count > 0
         => ~ReadinessResponse.ready /\ ~ReadinessResponse.checks.server
    /\ (response.kind = "readiness" /\ at_call.signals > 0)
         => ~response.ready /\ ~response.checks.server

(* A readiness query answered after the signal while is_ready was still    *)
(* (or again) true.                                                        *)
C6_Witness ==
    /\ response.kind = "readiness"
    /\ at_call.signals > 0
    /\ at_call.is_ready

(* C7: health_check() answers "healthy" exactly when is_shutting_down is   *)
(* false and "shutting_down" exactly when it is true, and every answer     *)
(* given after the first SIGTERM/SIGINT is "shutting_down".                *)
C7_HealthStatus ==
    /\ HealthStatus = "healthy" <=> ~is_shutting_down
    /\ HealthStatus = "shutting_down" <=> is_shutting_down
    /\ sig_count > 0 => HealthStatus = "shutting_down"
    /\ response.kind = "health"
         => /\ response.status = "healthy" <=> ~at_call.is_shutting_down
            /\ response.status = "shutting_down" <=> at_call.is_shutting_down
            /\ at_call.signals > 0 => response.status = "shutting_down"

(* A health query answered after a signal.                                 *)
C7_Witness ==
    /\ response.kind = "health"
    /\ at_call.signals > 0
    /\ response.status = "shutting_down"

(* C8: every readiness_check() answer has ready = (checks.server and       *)
(* checks.database and checks.cache), with checks.server = (is_ready and   *)
(* not is_shutting_down) for the state at the time of the call.            *)
C8_ReadyIsConjunction ==
    response.kind = "readiness"
        => /\ response.ready = (/\ response.checks.server
                                /\ response.checks.database
                                /\ response.checks.cache)
           /\ response.checks.server
                = (at_call.is_ready /\ ~at_call.is_shutting_down)

(* A readiness answer whose dependency checks pass while the server check  *)
(* fails.                                                                  *)
C8_Witness ==
    /\ response.kind = "readiness"
    /\ response.checks.database
    /\ response.checks.cache
    /\ ~response.checks.server
    /\ ~response.ready

(* C9: from construction until the grace delay of _mark_ready is over,     *)
(* every readiness_check() answers checks.server = false and ready = false.*)
C9_NotReadyDuringGrace ==
    /\ ~GraceElapsed
         => ~ReadinessResponse.ready /\ ~ReadinessResponse.checks.server
    /\ (response.kind = "readiness" /\ ~at_call.grace_elapsed)
         => ~response.ready /\ ~response.checks.server

(* A readiness query answered while _mark_ready was sleeping.              *)
C9_Witness ==
    /\ response.kind = "readiness"
    /\ ~at_call.grace_elapsed
    /\ ready_task.st = "sleeping"
    /\ now < ready_task.wake

(* C10: the health queries have no side effect: a step that answers        *)
(* health_check(), readiness_check() or liveness_check() leaves is_ready,  *)
(* is_shutting_down, startup_time and the ready task unchanged.            *)
C10_QueriesSideEffectFree ==
    [][(response' # response \/ at_call' # at_call)
         => UNCHANGED lifecycle]_vars

(* A liveness query answered by a ready server that is still ready.        *)
C10_Witness ==
    /\ response.kind = "liveness"
    /\ at_call.is_ready
    /\ is_ready
    /\ ~is_shutting_down
    /\ ready_task.st = "done"

(* C11: liveness_check() answers alive = true in every lifecycle state     *)
(* (starting, ready, shutting down), whatever is_ready, is_shutting_down   *)
(* and the dependency checks are.                                          *)
C11_AlwaysAlive ==
    /\ LivenessResponse.alive
    /\ response.kind = "liveness" => response.alive

(* A liveness query answered by a server that is shutting down and not     *)
(* ready.                                                                  *)
C11_Witness ==
    /\ response.kind = "liveness"
    /\ response.alive
    /\ at_call.is_shutting_down
    /\ ~at_call.is_ready

DerivedFlags == {"debug", "reload", "use_file_watcher"}

(* C12: a debug, reload or use_file_watcher that is not supplied, or is    *)
(* supplied empty, resolves to true when the mode is development or uvx    *)
(* and to false when it is docker or production.                           *)
C12_DerivedWhenUnsetOrEmpty ==
    config.status = "ok"
        => \A f \in DerivedFlags :
              (\/ supplied[f].t = "unset"
               \/ supplied[f].t = "str" /\ supplied[f].v = "")
                  => config[f] = (config.deployment_mode
                                     \in {"development", "uvx"})

(* C13: a debug, reload or use_file_watcher supplied through the           *)
(* environment as the text "false" resolves to False.                      *)
C13_TextFalseIsFalse ==
    config.status = "ok"
        => \A f \in DerivedFlags :
              (supplied[f].t = "str" /\ supplied[f].v = "false")
                  => config[f] = FALSE

(* C14: a boolean supplied explicitly for debug, reload or                 *)
(* use_file_watcher is the resolved value in every deployment mode.        *)
C14_ExplicitBooleanKept ==
    config.status = "ok"
        => \A f \in DerivedFlags :
              supplied[f].t = "bool" => config[f] = supplied[f].v

(* debug=False was supplied in development mode and stayed False.          *)
C14_Witness ==
    /\ config.status = "ok"
    /\ config.deployment_mode = "development"
    /\ supplied.debug.t = "bool"
    /\ ~supplied.debug.v
    /\ ~config.debug

(* C15: the resolved database_url is the supplied one, except in           *)
(* development or uvx mode with a supplied URL that does not start with    *)
(* "sqlite", where it is the default "sqlite:///./data/mcp.db"; so in      *)
(* development and uvx the resolved URL starts with "sqlite", and in       *)
(* docker and production the supplied URL is kept as it is.                *)
C15_DatabaseUrl ==
    (config.status = "ok" /\ supplied.database_url.t = "url")
        => LET given == supplied.database_url.v
               local == config.deployment_mode \in {"development", "uvx"}
           IN  /\ config.database_url =
                     IF local /\ ~StartsWith(given, SQLITE)
                     THEN URL_DEFAULT ELSE given
               /\ local => StartsWith(config.database_url, SQLITE)
               /\ ~local => config.database_url = given

(* A PostgreSQL URL supplied in uvx mode was replaced by the default.      *)
C15_Witness ==
    /\ config.status = "ok"
    /\ config.deployment_mode = "uvx"
    /\ supplied.database_url.t = "url"
    /\ supplied.database_url.v = URL_POSTGRES
    /\ config.database_url = URL_DEFAULT

(* C16: resolution fails, and gives no configuration, whenever port is     *)
(* outside 1..65535, workers is below 1, redis_db is outside 0..15 or      *)
(* request_timeout is below 1.0 s, whatever the other fields are; port 1   *)
(* and 65535, workers 1, redis_db 0 and 15 and request_timeout 1.0 s are   *)
(* accepted.                                                               *)
Rejected(f) == config.status = "error" /\ f \in config.errors
Accepted(f) == config.status = "ok" \/ f \notin config.errors

C16_RangeConstraints ==
    config.status # "unresolved"
        => /\ supplied.port.t = "int"
                => IF supplied.port.v < 1 \/ supplied.port.v > 65535
                   THEN Rejected("port") ELSE Accepted("port")
           /\ supplied.workers.t = "int"
                => IF supplied.workers.v < 1
                   THEN Rejected("workers") ELSE Accepted("workers")
           /\ supplied.redis_db.t = "int"
                => IF supplied.redis_db.v < 0 \/ supplied.redis_db.v > 15
                   THEN Rejected("redis_db") ELSE Accepted("redis_db")
           /\ supplied.request_timeout.t = "int"
                => IF supplied.request_timeout.v < 10
                   THEN Rejected("request_timeout")
                   ELSE Accepted("request_timeout")
           /\ config.status = "ok"
                => /\ config.port \in 1..65535
                   /\ config.workers >= 1
                   /\ config.redis_db \in 0..15
                   /\ config.request_timeout >= 10

(* Port 65536 alone was out of range and the resolution failed on it.      *)
C16_Witness ==
    /\ config.status = "error"
    /\ config.errors = {"port"}
    /\ supplied.port.v = 65536
    /\ supplied.workers.t = "int" /\ supplied.workers.v = 1
    /\ supplied.redis_db.t = "int" /\ supplied.redis_db.v = 15

(* C17: building MCPServerFoundation creates the storage_path directory    *)
(* and ./data in development and uvx mode and no directory in docker and   *)
(* production mode; it succeeds over directories that exist and leaves     *)
(* them in place, so a second construction changes nothing.                *)
C17_DirectoriesOnConstruction ==
    [][server' # server
         => /\ ~server'.failed
            /\ fs \subseteq fs'
            /\ IF ConfigIsDevelopment(config)
               THEN /\ config.storage_path \in fs'
                    /\ <<"data">> \in fs'
                    /\ fs' \ fs \subseteq
                         Prefixes(config.storage_path) \cup {<<"data">>}
               ELSE fs' = fs
            /\ server.built >= 1 => fs' = fs]_vars

(* The server was built twice in development mode over a storage           *)
(* directory that existed before.                                          *)
C17_Witness ==
    /\ server.built = 2
    /\ config.status = "ok"
    /\ ConfigIsDevelopment(config)
    /\ config.storage_path = <<"tmp", "storage">>
    /\ {<<"tmp", "storage">>, <<"data">>} \subseteq fs

(* C18: get_storage_config() returns exactly the keys backend and path     *)
(* for the local backend, even with bucket and region set; for s3, azure   *)
(* and gcs it has bucket iff storage_bucket is not None and region iff     *)
(* storage_region is not None; the configuration is not modified.          *)
C18_StorageConfigKeys ==
    /\ []("backend" \in DOMAIN storage_config
            => LET keys == DOMAIN storage_config
               IN  /\ {"backend", "path"} \subseteq keys
                   /\ keys \subseteq {"backend", "path", "bucket", "region"}
                   /\ storage_config.backend.v = config.storage_backend
                   /\ storage_config.path.v = config.storage_path
                   /\ config.storage_backend = "local"
                        => keys = {"backend", "path"}
                   /\ config.storage_backend # "local"
                        => /\ "bucket" \in keys
                                <=> config.storage_bucket.t # "none"
                           /\ "region" \in keys
                                <=> config.storage_region.t # "none")
    /\ [][storage_config' # storage_config => config' = config]_vars

(* The local backend with bucket and region set gave backend and path      *)
(* only.                                                                   *)
C18_Witness ==
    /\ "backend" \in DOMAIN storage_config
    /\ config.storage_backend = "local"
    /\ config.storage_bucket.t = "str"
    /\ config.storage_region.t = "str"
    /\ DOMAIN storage_config = {"backend", "path"}

(* C19: request validation succeeds iff jsonrpc is "2.0", method is a      *)
(* non-empty string, id is present and params, if present, is an object    *)
(* or a sequence; a request whose method is the empty string is rejected.  *)
C19_RequestValidation ==
    verdict.validator = "request"
        => (verdict.ok <=> /\ message.jsonrpc.t = "str"
                           /\ message.jsonrpc.v = "2.0"
                           /\ message.method.t = "str"
                           /\ message.method.v # ""
                           /\ message.id.t # "absent"
                           /\ message.params.t \in {"absent", "dict", "list"})

(* C20: a message built by create_notification has no id and passes        *)
(* notification validation; a notification to which an id is added, a      *)
(* null id included, fails notification validation.                        *)
C20_NotificationHasNoId ==
    /\ origin = <<"create_notification">>
          => /\ message.id.t = "absent"
             /\ verdict.validator = "notification" => verdict.ok
    /\ (verdict.validator = "notification" /\ message.id.t # "absent")
          => ~verdict.ok

(* A built notification was given a null id and then failed validation.    *)
C20_Witness ==
    /\ origin = <<"create_notification", "set_id">>
    /\ message.id.t = "null"
    /\ verdict.validator = "notification"
    /\ ~verdict.ok

(* C21: response validation accepts a message only if exactly one of       *)
(* result and error is present; a response built by create_response or     *)
(* create_error_response, for any result, code, message and id (a null id  *)
(* included), has exactly one of the two and passes validation.            *)
C21_ExactlyOneOfResultError ==
    LET one == (message.result.t # "absent") # (message.error.t # "absent")
    IN  /\ (verdict.validator = "response" /\ verdict.ok) => one
        /\ origin \in {<<"create_response">>, <<"create_error_response">>}
              => /\ one
                 /\ verdict.validator = "response" => verdict.ok

(* An error response built with a null id passed validation.               *)
C21_Witness ==
    /\ origin = <<"create_error_response">>
    /\ message.id.t = "null"
    /\ message.error.t = "dict"
    /\ message.result.t = "absent"
    /\ verdict.validator = "response"
    /\ verdict.ok

(* C22: a request built by create_request from a non-empty method, params  *)
(* that are an object, a sequence or None, and any id (given, or None and  *)
(* then generated) passes request validation, and a given id is carried    *)
(* unchanged.                                                              *)
C22_BuildThenValidate ==
    (origin = <<"create_request">> /\ args.method.v # "")
        => /\ verdict.validator = "request" => verdict.ok
           /\ args.id.t # "null" => message.id = args.id
           /\ args.id.t = "null" => message.id.t = "str"
           /\ message.method = args.method

(* A request built with the id "test-123" and a list of params passed.     *)
C22_Witness ==
    /\ origin = <<"create_request">>
    /\ args.method.v = "test"
    /\ args.params.t = "list"
    /\ args.id = JStr("test-123")
    /\ message.id = JStr("test-123")
    /\ verdict.validator = "request"
    /\ verdict.ok

(* C23: processing a request whose method is not registered gives an       *)
(* error response with code -32601, with the id of the request, whose      *)
(* error data contains the attempted method name.                          *)
C23_MethodNotFound ==
    \A i \in 1..Len(tasks) :
       (/\ tasks[i].st = "done"
        /\ batch[i].method.t = "str"
        /\ batch[i].method.v \notin RegisteredMethods)
          => /\ tasks[i].result.error.t = "dict"
             /\ tasks[i].result["error.code"] = JInt("-32601")
             /\ tasks[i].result.id = batch[i].id
             /\ tasks[i].result["error.data"].t # "absent"
             /\ tasks[i].result["error.data"].v = batch[i].method.v

(* C24: when several requests are processed concurrently, gather gives     *)
(* one response per request, in every order of completion; the response    *)
(* at each position has the id of the request at that position and is a    *)
(* valid JSON-RPC response, and no request makes the processing fail.      *)
AllRequests == \A i \in 1..Len(batch) : Shape(batch[i]) = "request"

C24_OneResponsePerRequest ==
    AllRequests
       => /\ responses.st # "raised"
          /\ \A i \in 1..Len(tasks) : tasks[i].st # "raised"
          /\ responses.st = "returned"
                => /\ Len(responses.list) = Len(batch)
                   /\ \A i \in 1..Len(batch) :
                         /\ responses.list[i].id = batch[i].id
                         /\ ValidResponse(responses.list[i])

(* Three requests with different ids, the last for an unknown method,      *)
(* were answered: a result for the first and an error for the last.        *)
C24_Witness ==
    /\ responses.st = "returned"
    /\ Len(batch) = 3
    /\ AllRequests
    /\ batch[1].id # batch[2].id
    /\ batch[2].id # batch[3].id
    /\ batch[3].method = JStr("unknown_method")
    /\ responses.list[3].error.t = "dict"
    /\ responses.list[1].result.t = "dict"

C26_NoReadyAfterShutdown ==
    [][(is_shutting_down /\ ~is_ready) => ~is_ready']_vars

(* C28: over any number of start() calls at most one _mark_ready task is   *)
(* created: once there is a task, no start() replaces it or restarts its   *)
(* delay, and is_ready goes from false to true only when that one task     *)
(* completes, which it does at most once.                                  *)
C28_OneReadyTask ==
    [][/\ ready_task # NoTask
            => /\ ready_task'.wake = ready_task.wake
               /\ ready_task'.st # "None"
               /\ ready_task.st # "sleeping" => ready_task'.st = ready_task.st
       /\ (~is_ready /\ is_ready')
            => ready_task.st = "sleeping" /\ ready_task'.st = "done"
       /\ start_calls' # start_calls
            => /\ is_ready' = is_ready
               /\ ready_task # NoTask => ready_task' = ready_task]_vars

(* start() was called a second time after the task of the first call had   *)
(* completed, and the completed task is still the task of the manager.     *)
C28_Witness ==
    /\ start_calls = 2
    /\ ready_task.st = "done"
    /\ ready_task.wake = READY_DELAY
    /\ now > READY_DELAY
    /\ is_ready

(* C29: the health://status resource answers status "healthy" in every     *)
(* lifecycle state: once is_shutting_down is set it still answers          *)
(* "healthy" while the health tool answers "shutting_down".                *)
C29_ResourceAlwaysHealthy ==
    /\ HealthStatusResource.status = "healthy"
    /\ response.kind = "health_status" => response.status = "healthy"
    /\ is_shutting_down => HealthResponse.status = "shutting_down"

(* The resource answered "healthy" after a termination signal.             *)
C29_Witness ==
    /\ response.kind = "health_status"
    /\ response.status = "healthy"
    /\ at_call.is_shutting_down
    /\ at_call.signals > 0
    /\ HealthResponse.status = "shutting_down"

(* C30: the health tool, the health://status resource and the              *)
(* get_server_info tool of one server report the same version string in    *)
(* every state.                                                            *)
C30_OneVersion ==
    response.kind \in {"health", "health_status", "server_info"}
        => /\ response.version = HealthResponse.version
           /\ response.version = HealthStatusResource.version
           /\ response.version = ServerInfo.version

(* C27: every construction of a HealthCheckManager replaces the SIGTERM    *)
(* and SIGINT handler of the process, so a termination signal makes only   *)
(* the most recently constructed manager shutting down; is_shutting_down   *)
(* and is_ready of every earlier manager are left unchanged by it.         *)
C27_LastManagerOwnsSignals ==
    /\ [](installed = Len(managers))
    /\ [][\A i \in 1..Len(managers) :
            managers'[i].is_shutting_down # managers[i].is_shutting_down
               => /\ i = Len(managers)
                  /\ \A j \in 1..Len(managers) :
                        j # i => managers'[j] = managers[j]]_vars

(* The second manager is shutting down after a signal, and the first,      *)
(* which was ready, is still ready and not shutting down.                  *)
C27_Witness ==
    /\ Len(managers) = 2
    /\ managers[2].is_shutting_down
    /\ managers[1].is_ready
    /\ ~managers[1].is_shutting_down
    /\ managers[1].ready_task = "done"

====
